---- MODULE Spec2Model ----
(***************************************************************************)
(* A model of src/src/eval.rs: the incremental code accumulator UserCode   *)
(* (new, append, del, balance, respond), the Discord markup codec          *)
(* (as_discord_code, strip_discord_code) and the evaluation session LisEnv *)
(* with its rendering.                                                     *)
(*                                                                         *)
(* A text is a sequence of characters, each character a string holding it  *)
(* (the backtick is the string Backtick): "(a)" is <<"(", "a", ")">>.  An  *)
(* Option is a sequence of length 0 (None) or 1 (Some).                    *)
(***************************************************************************)
EXTENDS Integers, Sequences, FiniteSets

VARIABLES
    code,     \* UserCode.0, the accumulated source text
    call,     \* the last call made: its name, its argument, self.0 before it
    ret,      \* what the last call returned
    pc,       \* where respond stands: "idle", "eval" (in the for loop of
              \* UserCode::eval), "expr" (inside interpreter::eval)
    parsed,   \* what parse(&self.0) yields in this pass
    pos,      \* how many entries of parsed the for loop has taken
    prints,   \* the calls of print the running expression has yet to make
    env,      \* LisEnv.env: the symbols the user's code has defined
    output,   \* LisEnv.output, the capture buffer
    results   \* LisEnv.results

vars == <<code, call, ret, pc, parsed, pos, prints, env, output, results>>

----------------------------------------------------------------------------
(* Bounds of the model. *)

\* Longest text UserCode::new is given when the accumulator is checked alone.
MaxBuf == 4
\* Longest fragment given to append, but for the fragments of ExtraFragments.
MaxFragLen == 2
\* In a conversation, append is called while the buffer is shorter than this.
MaxSession == 3
\* Largest index given to del.
MaxDel == 3
\* Longest body text given to the markup codec.
MaxBody == 2

----------------------------------------------------------------------------
(* Texts. *)

None == <<>>
Some(x) == <<x>>

Texts(alphabet, n) == UNION {[1..k -> alphabet] : k \in 0..n}

RECURSIVE Concat(_)
\* collect::<String>() of a sequence of texts.
Concat(ss) == IF ss = <<>> THEN <<>> ELSE Head(ss) \o Concat(Tail(ss))

Repeat(c, n) == [i \in 1..n |-> c]

\* char::is_whitespace, on the characters the model uses.
is_whitespace(c) == c \in {" ", "\t", "\n", "\r"}

starts_with(s, p) == Len(s) >= Len(p) /\ SubSeq(s, 1, Len(p)) = p

ends_with(s, p) ==
    Len(s) >= Len(p) /\ SubSeq(s, Len(s) - Len(p) + 1, Len(s)) = p

strip_prefix(s, p) ==
    IF starts_with(s, p) THEN Some(SubSeq(s, Len(p) + 1, Len(s))) ELSE None

strip_suffix(s, p) ==
    IF ends_with(s, p) THEN Some(SubSeq(s, 1, Len(s) - Len(p))) ELSE None

unwrap_or(opt, default) == IF opt = None THEN default ELSE opt[1]

trim_start(s) ==
    LET keep == {i \in 1..Len(s) : ~is_whitespace(s[i])}
    IN  IF keep = {} THEN <<>>
        ELSE SubSeq(s, CHOOSE i \in keep : \A j \in keep : i <= j, Len(s))

trim_end(s) ==
    LET keep == {i \in 1..Len(s) : ~is_whitespace(s[i])}
    IN  IF keep = {} THEN <<>>
        ELSE SubSeq(s, 1, CHOOSE i \in keep : \A j \in keep : i >= j)

trim(s) == trim_end(trim_start(s))

RECURSIVE split_inclusive(_)
\* str::split_inclusive('\n'): the pieces of s, each ending with its "\n"
\* except possibly the last.
split_inclusive(s) ==
    IF s = <<>> THEN <<>>
    ELSE LET nl == {i \in 1..Len(s) : s[i] = "\n"}
         IN  IF nl = {} THEN <<s>>
             ELSE LET i == CHOOSE i \in nl : \A j \in nl : i <= j
                  IN  <<SubSeq(s, 1, i)>> \o split_inclusive(SubSeq(s, i + 1, Len(s)))

\* str::lines(): a line ends at "\n" or "\r\n"; the terminator is not part of
\* the line, and the last line needs none.
lines(s) ==
    LET pieces == split_inclusive(s)
        line(p) ==
            IF ends_with(p, <<"\n">>)
            THEN LET q == SubSeq(p, 1, Len(p) - 1)
                 IN  unwrap_or(strip_suffix(q, <<"\r">>), q)
            ELSE p
    IN  [i \in 1..Len(pieces) |-> line(pieces[i])]

----------------------------------------------------------------------------
(* DiscordCode *)

\* The backtick character (a backtick cannot be written in a TLA+ string).
Backtick == "BACKTICK"
Fence == <<Backtick, Backtick, Backtick>>
Tick == <<Backtick>>
LispTag == <<"l", "i", "s", "p", "\n">>

as_discord_code(s) == Fence \o LispTag \o s \o <<"\n">> \o Fence

\* strip_discord_code that leaves the language tag after the fence.
strip_keeps_tag(c) ==
    LET fenced == strip_prefix(trim(c), Fence)
        s1 == IF fenced = None
              THEN unwrap_or(strip_prefix(c, Tick), c)
              ELSE fenced[1]
        unfenced == strip_suffix(trim(s1), Fence)
        s2 == IF unfenced # None THEN unfenced[1]
              ELSE unwrap_or(strip_suffix(s1, Tick), s1)
    IN  trim(s2)

strip_discord_code(c) ==
    LET fenced == strip_prefix(trim(c), Fence)
        s1 == IF fenced = None
              THEN unwrap_or(strip_prefix(c, Tick), c)
              ELSE unwrap_or(strip_prefix(fenced[1], LispTag), fenced[1])
        unfenced == strip_suffix(trim(s1), Fence)
        s2 == IF unfenced # None THEN unfenced[1]
              ELSE unwrap_or(strip_suffix(s1, Tick), s1)
    IN  trim(s2)

----------------------------------------------------------------------------
(* UserCode *)

Yes == <<"Yes">>
NoMissing(n) == <<"NoMissing", n>>
NoTrailing(n) == <<"NoTrailing", n>>

new(source) == source

RECURSIVE count_opened(_, _)
\* The for loop of balance: n_opened after the characters of s.
count_opened(s, n_opened) ==
    IF s = <<>> THEN n_opened
    ELSE count_opened(Tail(s),
                      CASE Head(s) = "(" -> n_opened + 1
                        [] Head(s) = ")" -> n_opened - 1
                        [] OTHER -> n_opened)

\* balance that counts a closing bracket only when a bracket is open.
balance_nested(self) ==
    LET open_after(n, c) == CASE c = "(" -> n + 1
                              [] c = ")" /\ n > 0 -> n - 1
                              [] OTHER -> n
        depth[i \in 0..Len(self)] ==
            IF i = 0 THEN 0 ELSE open_after(depth[i - 1], self[i])
        closers[i \in 0..Len(self)] ==
            IF i = 0 THEN 0
            ELSE closers[i - 1]
                     + (IF self[i] = ")" /\ depth[i - 1] = 0 THEN 1 ELSE 0)
    IN  CASE depth[Len(self)] > 0 -> NoMissing(depth[Len(self)])
          [] closers[Len(self)] > 0 -> NoTrailing(closers[Len(self)])
          [] OTHER -> Yes

balance(self) ==
    LET n_opened == count_opened(self, 0)
    IN  CASE n_opened = 0 -> Yes
          [] n_opened <= -1 -> NoTrailing(-n_opened)
          [] n_opened >= 1 -> NoMissing(n_opened)

\* append's loop over a line with no case for ")".
append_line_no_hug(self, line, indents) ==
    IF line = <<>> THEN self
    ELSE (IF ends_with(self, <<")">>) THEN Append(self, "\n") ELSE self)
             \o Repeat("\t", indents) \o line

RECURSIVE append_line_no_indent(_, _, _)
\* append's loop over a line, without the tabs.
append_line_no_indent(self, line, indents) ==
    IF line = <<>> THEN self
    ELSE IF Head(line) = ")"
         THEN append_line_no_indent(Append(self, ")"), Tail(line), indents)
    ELSE (IF ends_with(self, <<")">>) THEN Append(self, "\n") ELSE self) \o line

RECURSIVE append_line_first_only(_, _, _)
\* append's loop over a line, without the rest of the line after its first
\* character that is not ")".
append_line_first_only(self, line, indents) ==
    IF line = <<>> THEN self
    ELSE IF Head(line) = ")"
         THEN append_line_first_only(Append(self, ")"), Tail(line), indents)
    ELSE (IF ends_with(self, <<")">>) THEN Append(self, "\n") ELSE self)
             \o Repeat("\t", indents) \o <<Head(line)>>

RECURSIVE append_line(_, _, _)
\* The while loop of append over the characters of one line.
append_line(self, line, indents) ==
    IF line = <<>> THEN self
    ELSE IF Head(line) = ")" THEN append_line(Append(self, ")"), Tail(line), indents)
    ELSE (IF ends_with(self, <<")">>) THEN Append(self, "\n") ELSE self)
             \o Repeat("\t", indents) \o line

RECURSIVE append_lines(_, _, _)
\* The for loop of append over the lines of the stripped fragment.
append_lines(self, ls, indents) ==
    IF ls = <<>> THEN self
    ELSE append_lines(append_line(self, Head(ls), indents), Tail(ls), indents)

\* The indent taken from the count of either variant.
indent_depth_abs(self) ==
    LET b == balance(self) IN IF b = Yes THEN 0 ELSE b[2]

indent_depth(self) ==
    LET b == balance(self) IN IF b[1] = "NoMissing" THEN b[2] ELSE 0

append(self, source) ==
    append_lines(self, lines(strip_discord_code(source)), indent_depth(self))

saturating_sub(a, b) == IF a >= b THEN a - b ELSE 0

\* The line to remove, with del_idx in place of del_idx + 1.
effective_idx_no_plus(self, del_idx) ==
    saturating_sub(Len(lines(self)), del_idx)

\* The line del(del_idx) removes, counted from 0.
effective_idx(self, del_idx) == saturating_sub(Len(lines(self)), del_idx + 1)

\* del past its check of the sign: the buffer it leaves, the line it returns.
del_lines(self, del_idx) ==
    LET ls == lines(self)
        at == effective_idx(self, del_idx)
        kept == [i \in 1..Len(ls) |->
                    IF i - 1 # at THEN ls[i] \o <<"\n">> ELSE <<>>]
    IN  [self |-> Concat(kept),
         deleted |-> IF at < Len(ls) THEN Some(ls[at + 1]) ELSE None]

\* del that takes the magnitude of a negative index.
del_unsigned(self, del_idx) ==
    del_lines(self, IF del_idx < 0 THEN -del_idx ELSE del_idx)

del(self, del_idx) ==
    IF del_idx < 0 THEN [self |-> self, deleted |-> None]
    ELSE del_lines(self, del_idx)

----------------------------------------------------------------------------
(* LisEnv: the evaluation session.                                         *)
(*                                                                         *)
(* The parser and the interpreter are rust_lisp's.  parse yields a         *)
(* sequence of entries, each a parse error or an expression; an expression *)
(* is known by what the interpreter does when it evaluates it: the calls   *)
(* of print it makes (each with its argument list), the symbols it         *)
(* defines, the symbols it reads, and the value or error it ends with.  A  *)
(* value and an error are known by their Display text.                     *)
(***************************************************************************)

Ok(text) == [ok |-> TRUE, text |-> text]
Err(text) == [ok |-> FALSE, text |-> text]

\* LisEnv::new that takes up the environment the last pass left.
LisEnv_kept == [env |-> env, output |-> <<>>, results |-> <<>>]

\* LisEnv::new: the default environment with print replaced, an empty capture
\* buffer, no results.  env holds the symbols defined on top of the defaults.
LisEnv_new == [env |-> {}, output |-> <<>>, results |-> <<>>]

\* The closure registered as print, applied to args with the capture buffer
\* holding out: the buffer afterwards and what the closure returns.
print(out, args) ==
    IF args = <<>>
    THEN [output |-> out, res |-> Err(<<"a", "r", "g">>)]
    ELSE [output |-> out \o args[1] \o <<"\n">>, res |-> Ok(args[1])]

\* interpreter::eval(env, sexpr), once the expression's calls of print are
\* made: its result, and the environment it leaves.
interpreter_eval(e, sexpr) ==
    [res |-> IF sexpr.reads \subseteq e THEN sexpr.result ELSE Err(<<"u">>),
     env |-> e \cup sexpr.defines]

\* LisEnv::eval that does not clear the capture buffer.
LisEnv_eval_keeps(res, out, eval_res) ==
    [results |-> Append(res, [value |-> eval_res, printed |-> out]),
     output |-> out]

\* LisEnv::eval after interpreter::eval returned eval_res: the result is
\* pushed with a copy of the capture buffer, and the buffer is cleared.
LisEnv_eval(res, out, eval_res) ==
    [results |-> Append(res, [value |-> eval_res, printed |-> out]),
     output |-> <<>>]

\* A character that takes two bytes in UTF-8, such as U+00E9; every other
\* character of the model takes one.
TwoByte == "U+00E9"
len_utf8(c) == IF c = TwoByte THEN 2 ELSE 1

RECURSIVE len(_)
\* String::len: the length of a text in bytes.
len(text) == IF text = <<>> THEN 0 ELSE len_utf8(Head(text)) + len(Tail(text))

\* str::is_char_boundary: byte index idx is the start of a character of text
\* or its end.
is_char_boundary(text, idx) ==
    \E k \in 0..Len(text) : len(SubSeq(text, 1, k)) = idx

\* &text[..idx] and &text[idx..], defined when idx is a character boundary.
slice_to(text, idx) ==
    SubSeq(text, 1, CHOOSE k \in 0..Len(text) : len(SubSeq(text, 1, k)) = idx)
slice_from(text, idx) ==
    SubSeq(text, (CHOOSE k \in 0..Len(text) : len(SubSeq(text, 1, k)) = idx) + 1,
           Len(text))

TruncateOver == 64
HeadLen == 32
TailLen == 29

\* The test of Display for LisEnv that sends a value to the slices.
is_long(value) == len(value) > TruncateOver

\* Display for LisEnv panics on a successful value: one of its two slices
\* does not start or end on a character boundary.
fmt_value_panics(value) ==
    /\ is_long(value)
    /\ \/ ~is_char_boundary(value, HeadLen)
       \/ ~is_char_boundary(value, len(value) - TailLen)

\* The text Display for LisEnv writes for a successful value that it does
\* not panic on.
fmt_value(value) ==
    IF is_long(value)
    THEN slice_to(value, HeadLen) \o <<".", ".", ".">>
             \o slice_from(value, len(value) - TailLen)
    ELSE value

\* Display for LisEnv panics on one of self.results.
to_string_panics(res) ==
    \E i \in 1..Len(res) : res[i].value.ok /\ fmt_value_panics(res[i].value.text)

RECURSIVE to_string(_)
\* Display for LisEnv, over self.results.
to_string(res) ==
    IF res = <<>> THEN <<>>
    ELSE LET r == Head(res)
         IN  (IF r.printed # <<>> THEN r.printed \o <<"\n">> ELSE <<>>)
                 \o (IF r.value.ok THEN fmt_value(r.value.text) ELSE r.value.text)
                 \o <<"\n">>
                 \o to_string(Tail(res))

\* respond's test, true also of a buffer with closing brackets to spare.
evaluates_no_missing(self) == balance(self)[1] # "NoMissing"

\* respond's test: the buffer is evaluated once it is balanced.
evaluates(self) == balance(self) = Yes

\* respond, when the buffer is not balanced or before it is evaluated.
respond_code(self) == as_discord_code(self)

\* respond, after self.eval() returned evaluated.
respond_push(response, evaluated) == response \o as_discord_code(evaluated)

----------------------------------------------------------------------------
(* What the model is given. *)

\* Most entries parse yields in one pass.
MaxForms == 2

CodeAlphabet == {"(", ")", "a", "\n"}
FragAlphabet == {"(", ")", "a", "\n", Backtick}
BodyAlphabet == {"a", " ", "\n", Backtick}

\* The texts UserCode::new is given.
Sources == Texts(CodeAlphabet, MaxBuf)

\* The fragments append is given.
ExtraFragments ==
    {<<"a", "\n", "b">>, <<"a", "\n", ")">>, <<")", "\n", "a">>,
     <<"(", "a", ")">>, <<"a", " ", "b">>, <<" ", ")">>, <<" ", "a", " ">>,
     <<Backtick, ")", Backtick>>, <<Backtick, "a", Backtick>>,
     Fence \o LispTag \o <<")", ")">> \o Fence,
     Fence \o LispTag \o <<"a", ")">> \o <<"\n">> \o Fence}
Fragments == Texts(FragAlphabet, MaxFragLen) \cup ExtraFragments

\* The indices del is given.
DelIndices == -2..MaxDel

Symbols == {"x"}

ParseError == [ok |-> FALSE, err |-> <<"P">>,
               expr |-> [prints |-> <<>>, defines |-> {}, reads |-> {},
                         result |-> Err(<<>>)]]
Parsed(prints_, defines_, reads_, result_) ==
    [ok |-> TRUE, err |-> <<>>,
     expr |-> [prints |-> prints_, defines |-> defines_, reads |-> reads_,
               result |-> result_]]

\* A text of n characters, the i-th the last digit of i, with the characters
\* at the positions of wide two bytes long.
Digits == <<"0", "1", "2", "3", "4", "5", "6", "7", "8", "9">>
Long(n, wide) == [i \in 1..n |-> IF i \in wide THEN TwoByte ELSE Digits[(i % 10) + 1]]

\* The entries parse may yield: a parse error, a literal, a print, two calls
\* of print of which the second has no argument, a definition of x, a
\* reference to x, a value of 65 bytes whose bytes 31 and 32 are one
\* character.
Forms ==
    {ParseError,
     Parsed(<<>>, {}, {}, Ok(<<"5">>)),
     Parsed(<< <<(<<"5">>)>> >>, {}, {}, Ok(<<"5">>)),
     Parsed(<< <<(<<"7">>)>>, <<>> >>, {}, {}, Err(<<"E">>)),
     Parsed(<<>>, {"x"}, {}, Ok(<<"x">>)),
     Parsed(<<>>, {}, {"x"}, Ok(<<"7">>)),
     Parsed(<<>>, {}, {}, Ok(Long(64, {32})))}

\* Most characters of a value given to the rendering on its own.
MaxValue == 70

\* The values the rendering is given on its own: of every length up to
\* MaxValue and of length 100, of one-byte characters alone, with one
\* two-byte character anywhere, or with two-byte characters first.
Values ==
    LET lens == (0..MaxValue) \cup {100}
    IN  {Long(n, {}) : n \in lens}
            \cup UNION {{Long(n, {k}) : k \in 1..n} : n \in lens}
            \cup UNION {{Long(n, 1..k) : k \in 1..n} : n \in 0..MaxValue}

ParseResults == UNION {[1..n -> Forms] : n \in 0..MaxForms}

\* The buffers and fragments of the runs that evaluate.
SessionSources == {<<>>, <<"(">>}
SessionFragments == {<<"(">>, <<")">>, <<"a">>}
SessionDelIndices == {-1, 0}

\* The texts the markup codec is given.
Openers == {<<>>, Tick, Fence, Fence \o LispTag}
Closers == {<<>>, Tick, Fence}
Pads == {<<>>, <<" ">>, <<"\n">>}
Bodies ==
    LET short == Texts(BodyAlphabet, MaxBody)
    IN  short \cup {LispTag \o b : b \in short}
\* A body between an opener and a closer, with whitespace around them.
MarkedUp(body) ==
    {w1 \o o \o body \o c \o w2 :
        w1 \in Pads, o \in Openers, c \in Closers, w2 \in Pads}

----------------------------------------------------------------------------
(* The calls. *)

Idle == /\ pc = "idle"
        /\ parsed = <<>> /\ pos = 0 /\ prints = <<>>
        /\ output = <<>> /\ results = <<>>

InitOf(sources) ==
    /\ \E source \in sources :
          /\ code = new(source)
          /\ call = [op |-> "new", arg |-> source, old |-> <<>>]
    /\ ret = <<>>
    /\ env = {}
    /\ Idle

AppendCall(source) ==
    /\ pc = "idle"
    /\ code' = append(code, source)
    /\ call' = [op |-> "append", arg |-> source, old |-> code]
    /\ ret' = <<>>
    /\ UNCHANGED <<pc, parsed, pos, prints, env, output, results>>

DelCall(del_idx) ==
    /\ pc = "idle"
    /\ code' = del(code, del_idx).self
    /\ call' = [op |-> "del", arg |-> del_idx, old |-> code]
    /\ ret' = del(code, del_idx).deleted
    /\ UNCHANGED <<pc, parsed, pos, prints, env, output, results>>

\* respond on a buffer that is not balanced.
RespondUnbalanced ==
    /\ pc = "idle"
    /\ ~evaluates(code)
    /\ call' = [op |-> "respond", arg |-> <<>>, old |-> code]
    /\ ret' = respond_code(code)
    /\ UNCHANGED <<code, pc, parsed, pos, prints, env, output, results>>

\* respond on a balanced buffer, up to the for loop of UserCode::eval.
RespondBalanced(p) ==
    /\ pc = "idle"
    /\ evaluates(code)
    /\ call' = [op |-> "respond", arg |-> <<>>, old |-> code]
    /\ ret' = respond_code(code)
    /\ env' = LisEnv_new.env
    /\ output' = LisEnv_new.output
    /\ results' = LisEnv_new.results
    /\ parsed' = p
    /\ pos' = 0
    /\ pc' = "eval"
    /\ UNCHANGED <<code, prints>>

\* The for loop ended by an entry that did not parse.
SkipEntry_stops ==
    /\ pc = "eval"
    /\ pos < Len(parsed)
    /\ ~parsed[pos + 1].ok
    /\ pos' = Len(parsed)
    /\ UNCHANGED <<code, call, ret, pc, parsed, prints, env, output, results>>

\* The for loop recording the error of an entry that did not parse.
SkipEntry_records ==
    /\ pc = "eval"
    /\ pos < Len(parsed)
    /\ ~parsed[pos + 1].ok
    /\ pos' = pos + 1
    /\ results' = Append(results, [value |-> Err(parsed[pos + 1].err),
                                   printed |-> <<>>])
    /\ UNCHANGED <<code, call, ret, pc, parsed, prints, env, output>>

\* The for loop takes an entry that did not parse: it is skipped.
SkipEntry ==
    /\ pc = "eval"
    /\ pos < Len(parsed)
    /\ ~parsed[pos + 1].ok
    /\ pos' = pos + 1
    /\ UNCHANGED <<code, call, ret, pc, parsed, prints, env, output, results>>

\* The for loop takes an expression: LisEnv::eval calls interpreter::eval.
EvalEntry ==
    /\ pc = "eval"
    /\ pos < Len(parsed)
    /\ parsed[pos + 1].ok
    /\ pos' = pos + 1
    /\ prints' = parsed[pos + 1].expr.prints
    /\ pc' = "expr"
    /\ UNCHANGED <<code, call, ret, parsed, env, output, results>>

\* The expression being evaluated calls print.
PrintCall ==
    /\ pc = "expr"
    /\ prints # <<>>
    /\ output' = print(output, Head(prints)).output
    /\ prints' = Tail(prints)
    /\ UNCHANGED <<code, call, ret, pc, parsed, pos, env, results>>

\* interpreter::eval returns to LisEnv::eval.
EvalReturn ==
    /\ pc = "expr"
    /\ prints = <<>>
    /\ LET r == interpreter_eval(env, parsed[pos].expr)
           s == LisEnv_eval(results, output, r.res)
       IN  /\ env' = r.env
           /\ results' = s.results
           /\ output' = s.output
    /\ pc' = "eval"
    /\ UNCHANGED <<code, call, ret, parsed, pos, prints>>

\* The for loop is over: UserCode::eval returns env.to_string(), the LisEnv
\* is dropped and respond returns.  env keeps the bindings the pass ended
\* with; nothing reads them.
RespondReturn ==
    /\ pc = "eval"
    /\ pos = Len(parsed)
    /\ ~to_string_panics(results)
    /\ ret' = respond_push(ret, to_string(results))
    /\ pc' = "idle"
    /\ parsed' = <<>>
    /\ pos' = 0
    /\ output' = <<>>
    /\ results' = <<>>
    /\ UNCHANGED <<code, call, prints, env>>

\* The for loop is over and env.to_string() panics in a slice: respond does
\* not return.
RespondPanic ==
    /\ pc = "eval"
    /\ pos = Len(parsed)
    /\ to_string_panics(results)
    /\ pc' = "panic"
    /\ UNCHANGED <<code, call, ret, parsed, pos, prints, env, output, results>>

\* Display for LisEnv writes one successful value, on its own.
FmtCall(value) ==
    /\ pc = "idle"
    /\ ~fmt_value_panics(value)
    /\ call' = [op |-> "fmt", arg |-> value, old |-> code]
    /\ ret' = fmt_value(value)
    /\ UNCHANGED <<code, pc, parsed, pos, prints, env, output, results>>

\* Display for LisEnv panics in a slice of one successful value.
FmtPanic(value) ==
    /\ pc = "idle"
    /\ fmt_value_panics(value)
    /\ call' = [op |-> "fmt", arg |-> value, old |-> code]
    /\ pc' = "panic"
    /\ UNCHANGED <<code, ret, parsed, pos, prints, env, output, results>>

\* as_discord_code of the buffer, on its own.
WrapCall ==
    /\ call' = [op |-> "as_discord_code", arg |-> code, old |-> code]
    /\ ret' = as_discord_code(code)
    /\ UNCHANGED <<code, pc, parsed, pos, prints, env, output, results>>

\* strip_discord_code of a text, on its own.
StripCall(text) ==
    /\ call' = [op |-> "strip_discord_code", arg |-> text, old |-> code]
    /\ ret' = strip_discord_code(text)
    /\ UNCHANGED <<code, pc, parsed, pos, prints, env, output, results>>

----------------------------------------------------------------------------
(* The specifications. *)

\* A conversation: one accumulator, built by new, then any calls of append,
\* del and respond.
Init == InitOf(SessionSources)

Next ==
    \/ \E source \in SessionFragments :
          Len(code) < MaxSession /\ AppendCall(source)
    \/ \E del_idx \in SessionDelIndices : DelCall(del_idx)
    \/ RespondUnbalanced
    \/ \E p \in ParseResults : RespondBalanced(p)
    \/ SkipEntry
    \/ EvalEntry
    \/ PrintCall
    \/ EvalReturn
    \/ RespondReturn
    \/ RespondPanic

Spec == Init /\ [][Next]_vars

\* The accumulator alone: any buffer new can build, then one call of append
\* or of del on it, and del(0) after the append.
InitAcc == InitOf(Sources)

NextAcc ==
    \/ \E source \in Fragments : call.op = "new" /\ AppendCall(source)
    \/ \E del_idx \in DelIndices : call.op = "new" /\ DelCall(del_idx)
    \/ call.op = "append" /\ DelCall(0)

SpecAcc == InitAcc /\ [][NextAcc]_vars

\* The markup codec alone: a text is held, and either it is wrapped by
\* as_discord_code and the result stripped by strip_discord_code, or it is
\* given to strip_discord_code between an opener and a closer.
InitCodec == InitOf(Bodies)

NextCodec ==
    \/ call.op = "new" /\ WrapCall
    \/ call.op = "as_discord_code" /\ StripCall(ret)
    \/ \E text \in MarkedUp(code) : call.op = "new" /\ StripCall(text)

SpecCodec == InitCodec /\ [][NextCodec]_vars

\* The rendering of a value alone: one value, written once.
InitFmt == InitOf({<<>>})

NextFmt ==
    \/ \E value \in Values : call.op = "new" /\ FmtCall(value)
    \/ \E value \in Values : call.op = "new" /\ FmtPanic(value)

SpecFmt == InitFmt /\ [][NextFmt]_vars

----------------------------------------------------------------------------
(* What the claims are stated with. *)

Count(s, c) == Cardinality({i \in 1..Len(s) : s[i] = c})

\* Opening brackets of s minus its closing brackets.
Net(s) == Count(s, "(") - Count(s, ")")

Last(s) == s[Len(s)]

Max(a, b) == IF a >= b THEN a ELSE b

RemoveAt(s, i) == SubSeq(s, 1, i - 1) \o SubSeq(s, i + 1, Len(s))

SingleLine(s) == \A i \in 1..Len(s) : s[i] # "\n"

OnlyClosers(s) == s # <<>> /\ \A i \in 1..Len(s) : s[i] = ")"

----------------------------------------------------------------------------
(* The accumulator: C2 to C6, under SpecAcc. *)

\* C2: balance depends only on the counts of "(" and ")" in the buffer: with
\* N more "(" than ")" it is NoMissing(N), with N more ")" than "(" it is
\* NoTrailing(N), with as many of each it is Yes, whatever the other
\* characters and the order of the brackets.
BalanceCountsBrackets ==
    balance(code) =
        (IF Net(code) > 0 THEN NoMissing(Net(code))
         ELSE IF Net(code) < 0 THEN NoTrailing(-Net(code))
         ELSE Yes)

\* A buffer append left with its brackets out of order, other characters
\* between them, and as many of each.
BalanceWitness ==
    /\ call.op = "append"
    /\ code = <<")", "\n", "a", "(">>
    /\ balance(code) = Yes

\* C3: append of a fragment that is, once stripped of its markup, k >= 1
\* closing brackets and nothing else leaves the old buffer followed by exactly
\* k ")": no newline and no tab comes before or between them.
ClosersHug ==
    call.op = "append" =>
        LET f == strip_discord_code(call.arg)
        IN  OnlyClosers(f) => code = call.old \o Repeat(")", Len(f))

\* Two closers in backticks appended to a buffer that ends with an opening
\* bracket.
ClosersHugWitness ==
    /\ call.op = "append"
    /\ call.arg # strip_discord_code(call.arg)
    /\ strip_discord_code(call.arg) = <<")", ")">>
    /\ call.old # <<>> /\ Last(call.old) = "("
    /\ code = call.old \o <<")", ")">>

\* C4 as stated: on a buffer that is NoMissing(n) and ends with ")", append of
\* a single-line fragment f whose first character is not ")" leaves the old
\* buffer, a newline, n tabs and f verbatim; the depth is that of the buffer
\* before the append, and 0 when that buffer is Yes or NoTrailing.
IndentedLineVerbatim ==
    (/\ call.op = "append"
     /\ call.old # <<>> /\ Last(call.old) = ")"
     /\ call.arg # <<>> /\ SingleLine(call.arg) /\ call.arg[1] # ")")
    => code = call.old \o <<"\n">>
                  \o Repeat("\t", Max(Net(call.old), 0)) \o call.arg

\* C4 amended: the same of f the fragment stripped of its markup: when the
\* stripped fragment is a single non-empty line whose first character is not
\* ")", append leaves the old buffer, a newline, n tabs and the stripped
\* fragment.
IndentedLineStripped ==
    call.op = "append" =>
        LET f == strip_discord_code(call.arg)
        IN  (/\ call.old # <<>> /\ Last(call.old) = ")"
             /\ f # <<>> /\ SingleLine(f) /\ f[1] # ")")
            => code = call.old \o <<"\n">>
                          \o Repeat("\t", Max(Net(call.old), 0)) \o f

\* A fragment in backticks appended at depth 2 after a closing bracket.
IndentedLineWitness ==
    /\ call.op = "append"
    /\ Net(call.old) = 2 /\ Last(call.old) = ")"
    /\ call.arg = <<Backtick, "a", Backtick>>
    /\ code = call.old \o <<"\n", "\t", "\t", "a">>

\* C5: on a buffer of L >= 1 lines, del(k) with k >= 0 removes exactly the
\* line at index max(0, L - k - 1) and returns it; the other lines stay, in
\* their order; on an empty buffer del(k) removes nothing and the buffer stays
\* empty.
DelRemovesOneLine ==
    (call.op = "del" /\ call.arg >= 0) =>
        LET ls == lines(call.old)
            L == Len(ls)
            at == Max(0, L - call.arg - 1)
        IN  IF L >= 1
            THEN /\ ret = Some(ls[at + 1])
                 /\ lines(code) = RemoveAt(ls, at + 1)
            ELSE /\ ret = None
                 /\ code = <<>>

\* del(k) with k past the number of lines, on a buffer of two different lines:
\* the first is removed and returned.
DelWitness ==
    /\ call.op = "del"
    /\ Len(lines(call.old)) = 2
    /\ call.arg >= 2
    /\ lines(call.old)[1] # lines(call.old)[2]
    /\ ret = Some(lines(call.old)[1])
    /\ lines(code) = <<lines(call.old)[2]>>

\* C6: del with a negative index returns None and leaves the buffer as it
\* was.
DelNegativeNoOp ==
    (call.op = "del" /\ call.arg < 0) => (ret = None /\ code = call.old)

\* del(-1) on a buffer of two lines.
DelNegativeWitness ==
    /\ call.op = "del"
    /\ call.arg = -1
    /\ Len(lines(call.old)) = 2
    /\ ret = None
    /\ code = call.old

----------------------------------------------------------------------------
(* The markup codec: C7 and C8, under SpecCodec. *)

NoBacktick(s) == \A i \in 1..Len(s) : s[i] # Backtick

NoSurroundingSpace(s) ==
    s = <<>> \/ (~is_whitespace(s[1]) /\ ~is_whitespace(Last(s)))

\* s without the whitespace at its ends.
IsTrimOf(t, s) ==
    /\ NoSurroundingSpace(t)
    /\ \E i \in 1..Len(s) + 1 :
          /\ i + Len(t) - 1 <= Len(s)
          /\ t = SubSeq(s, i, i + Len(t) - 1)
          /\ \A j \in 1..Len(s) :
                (j < i \/ j > i + Len(t) - 1) => is_whitespace(s[j])

\* strip_discord_code was given what as_discord_code returned for the text
\* held.
StrippedTheWrapped ==
    /\ call.op = "strip_discord_code"
    /\ call.arg = Fence \o LispTag \o code \o <<"\n">> \o Fence

\* C7 as stated: strip_discord_code(as_discord_code(x)) = x for every x with
\* no backtick, also when x begins or ends with whitespace.
StripInvertsWrap ==
    (StrippedTheWrapped /\ NoBacktick(code)) => ret = code

\* C7 amended: strip_discord_code(as_discord_code(x)) is x without the
\* whitespace at its ends, for every x with no backtick; it is x when x
\* neither begins nor ends with whitespace.
StripOfWrapTrims ==
    (StrippedTheWrapped /\ NoBacktick(code)) =>
        /\ IsTrimOf(ret, code)
        /\ NoSurroundingSpace(code) => ret = code

\* A text of several lines, wrapped and stripped, comes back whole; so does
\* one that begins with the language tag.
StripOfWrapWitness ==
    /\ StrippedTheWrapped
    /\ code = LispTag \o <<"\n", "a">>
    /\ ret = code

\* C8: for a body with no backtick and no whitespace at its ends, an opener
\* among none, one backtick, the fence, the fence with the language tag and
\* newline, and a closer among none, one backtick, the fence,
\* strip_discord_code(opener + body + closer) is the body (after the bare
\* fence the body does not begin with the language tag); a leading language
\* tag is kept unless the fence stands right before it.
StripRemovesMarkup ==
    call.op = "strip_discord_code" =>
        \A o \in Openers, c \in Closers :
            (/\ call.arg = o \o code \o c
             /\ NoBacktick(code)
             /\ NoSurroundingSpace(code)
             /\ o = Fence => ~starts_with(code, LispTag))
            => ret = code

----------------------------------------------------------------------------
(* The evaluation session: C1, C9 and C10, under Spec. *)

\* C1: respond returns the wrapped buffer first; it evaluates the buffer,
\* and appends the wrapped rendering of the evaluation, if and only if the
\* buffer is balanced; on a buffer with brackets missing or to spare nothing
\* is evaluated and the response is the wrapped buffer alone.
RespondEvaluatesIffBalanced ==
    /\ [](pc # "idle" => (Net(code) = 0 /\ call.op = "respond"))
    /\ [][/\ (pc = "idle" /\ call'.op = "respond") =>
                /\ ret' = as_discord_code(code)
                /\ pc' = (IF Net(code) = 0 THEN "eval" ELSE "idle")
                /\ Net(code) # 0 => results' = <<>>
          /\ (pc = "eval" /\ pc' = "idle") =>
                /\ call'.op = "respond"
                /\ ret' = as_discord_code(code)
                              \o as_discord_code(to_string(results))
          /\ code' # code => (pc = "idle" /\ pc' = "idle")
         ]_vars

\* respond has returned for the balanced buffer "()", with the rendering of
\* two outcomes after the wrapped buffer.
RespondWitness ==
    /\ pc = "idle"
    /\ call.op = "respond"
    /\ call.old = <<"(", ")">>
    /\ \E rendering \in Texts({"5", "x", "\n"}, 4) :
          /\ Len(rendering) = 4
          /\ ret = as_discord_code(code) \o as_discord_code(rendering)

\* The entries of parsed the pass has evaluated to the end.
Evaluated ==
    LET done == IF pc = "expr" THEN pos - 1 ELSE pos
    IN  SelectSeq(SubSeq(parsed, 1, done), LAMBDA entry : entry.ok)

Printed(calls) ==
    Concat([i \in 1..Len(calls) |->
               IF calls[i] = <<>> THEN <<>> ELSE calls[i][1] \o <<"\n">>])

\* C10: in a pass the output recorded for the i-th expression is the text
\* printed while it was evaluated and nothing else: the capture buffer is
\* empty when the evaluation of an expression starts and when the pass ends,
\* and holds in between what the expression has printed.
CaptureIsPerExpression ==
    /\ pc = "eval" => output = <<>>
    /\ pc \in {"eval", "expr"} =>
          /\ Len(results) = Len(Evaluated)
          /\ \A i \in 1..Len(results) :
                results[i].printed = Printed(Evaluated[i].expr.prints)
    /\ pc = "expr" =>
          LET all == parsed[pos].expr.prints
          IN  output = Printed(SubSeq(all, 1, Len(all) - Len(prints)))

\* A pass has evaluated two expressions that print different texts.
CaptureWitness ==
    /\ pc = "eval"
    /\ pos = Len(parsed)
    /\ Len(results) = 2
    /\ results[1].printed = <<"5", "\n">>
    /\ results[2].printed = <<"7", "\n">>

----------------------------------------------------------------------------
(* The evaluation pass: C11 and C12, under Spec. *)

\* What the interpreter returns for the i-th evaluated expression of the
\* pass, in an environment that holds what the expressions before it defined.
Outcome(i) ==
    LET bound == UNION {Evaluated[j].expr.defines : j \in 1..(i - 1)}
    IN  IF Evaluated[i].expr.reads \subseteq bound
        THEN Evaluated[i].expr.result
        ELSE Err(<<"u">>)

\* C11: in a pass every entry that parsed is evaluated once, in parse order,
\* in the one environment of the pass, and one outcome is recorded for each
\* in that order; a runtime error and an entry that did not parse neither
\* stop the pass nor make it skip a later expression.
PassEvaluatesEveryForm ==
    pc \in {"eval", "expr"} =>
        /\ Len(results) = Len(Evaluated)
        /\ \A i \in 1..Len(results) : results[i].value = Outcome(i)
        /\ env = UNION {Evaluated[i].expr.defines : i \in 1..Len(Evaluated)}
        /\ (pc = "eval" /\ pos = Len(parsed)) =>
              Len(results) = Cardinality({i \in 1..Len(parsed) : parsed[i].ok})

\* A pass is over whose first expression ended with a runtime error and whose
\* second expression was evaluated all the same.
PassWitness ==
    /\ pc = "eval"
    /\ pos = Len(parsed)
    /\ Len(results) = 2
    /\ ~results[1].value.ok
    /\ results[2].value = Ok(<<"5">>)

Contains(s, sub) ==
    \E i \in 0..(Len(s) - Len(sub)) : SubSeq(s, i + 1, i + Len(sub)) = sub

\* C12 as stated: when respond returns, the text of every parse error of the
\* pass is part of the response.
ParseErrorSurfaced ==
    [][(pc = "eval" /\ pc' = "idle") =>
          \A i \in 1..Len(parsed) :
              ~parsed[i].ok => Contains(ret', parsed[i].err)]_vars

\* C12 amended: an entry that did not parse is skipped in silence: the pass
\* records no outcome for it, and the response holds the rendering of the
\* outcomes of the entries that parsed and nothing of the parse error.
ParseErrorSkipped ==
    [][(pc = "eval" /\ pc' = "idle") =>
          /\ Len(results) = Cardinality({i \in 1..Len(parsed) : parsed[i].ok})
          /\ ret' = as_discord_code(code) \o as_discord_code(to_string(results))
          /\ \A i \in 1..Len(parsed) :
                ~parsed[i].ok => ~Contains(ret', parsed[i].err)]_vars

\* A pass is over whose first entry did not parse and whose second was
\* evaluated: one outcome is recorded.
ParseErrorWitness ==
    /\ pc = "eval"
    /\ pos = Len(parsed)
    /\ Len(parsed) = 2
    /\ ~parsed[1].ok
    /\ parsed[2].ok
    /\ Len(results) = 1

----------------------------------------------------------------------------
(* The rendering: C13 under SpecFmt, C14 and C15 under Spec. *)

\* C13: a successful value of at most 64 characters is written as it is, a
\* longer one as its first 32 characters, "..." and its last 29 characters,
\* so that what is written for a value has at most 64 characters.
ValueTruncatedTo64 ==
    call.op = "fmt" =>
        /\ pc = "idle"
        /\ ret = IF Len(call.arg) <= 64
                 THEN call.arg
                 ELSE SubSeq(call.arg, 1, 32) \o <<".", ".", ".">>
                          \o SubSeq(call.arg, Len(call.arg) - 28, Len(call.arg))
        /\ Len(ret) <= 64

\* The lines the claim has an outcome rendered as: the lines of what the
\* expression printed, then the line of its value or error text.
OutcomeLines(r) == lines(r.printed) \o <<r.value.text>>

\* C14: the rendering a pass returns holds the outcomes in evaluation order,
\* each as the lines its expression printed followed directly by the line of
\* its value or error text, and by that line alone when nothing was printed.
\* Stated of the passes whose values are all short enough to be written whole.
OutputDirectlyBeforeValue ==
    [][(/\ pc = "eval"
        /\ pc' = "idle"
        /\ \A i \in 1..Len(results) : len(results[i].value.text) <= 64) =>
          /\ ret' = as_discord_code(code) \o as_discord_code(to_string(results))
          /\ lines(to_string(results))
                 = Concat([i \in 1..Len(results) |-> OutcomeLines(results[i])])]_vars

\* C15: no run of new, append, del and respond panics.
NeverPanics == pc # "panic"

----------------------------------------------------------------------------
(* append and del together: C16 to C18, under SpecAcc. *)

\* C16 as stated: del(0) right after append(f), f a non-empty single line
\* that does not start with ")", returns tabs followed by f and leaves the
\* lines the buffer had before the append.
RetractsAppended ==
    [][(/\ call.op = "append"
        /\ call'.op = "del"
        /\ call'.arg = 0
        /\ call.arg # <<>>
        /\ SingleLine(call.arg)
        /\ call.arg[1] # ")") =>
          /\ \E k \in 0..Len(call.old) : ret' = Some(Repeat("\t", k) \o call.arg)
          /\ lines(code') = lines(call.old)]_vars

\* A buffer append starts a line of its own on: it is empty or ends with ")"
\* or with a line break.
TakesNewLine(self) == self = <<>> \/ Last(self) \in {")", "\n"}

\* C16 amended: index 0 is the last line of the buffer.  When the buffer
\* before the append is empty or ends with ")" or a line break, and the
\* fragment, stripped of its markup, is a non-empty single line f that does
\* not start with ")", del(0) right after the append returns the indentation
\* followed by f and leaves the lines the buffer had before the append.
RetractsLastLine ==
    [][(/\ call.op = "append"
        /\ call'.op = "del"
        /\ call'.arg = 0
        /\ TakesNewLine(call.old)
        /\ LET f == strip_discord_code(call.arg)
           IN  f # <<>> /\ SingleLine(f) /\ f[1] # ")") =>
          /\ ret' = Some(Repeat("\t", Max(Net(call.old), 0))
                             \o strip_discord_code(call.arg))
          /\ lines(code') = lines(call.old)]_vars

\* "a" was appended to "(()" and del(0) took it back.
RetractWitness ==
    /\ call.op = "del"
    /\ call.arg = 0
    /\ call.old = <<"(", "(", ")", "\n", "\t", "a">>
    /\ ret = Some(<<"\t", "a">>)
    /\ code = <<"(", "(", ")", "\n">>

\* s without its line breaks and tabs.
NoLayout(s) == SelectSeq(s, LAMBDA c : c \notin {"\n", "\t"})

\* C17: append leaves what the buffer held and adds to it the characters of
\* the stripped fragment, none dropped, doubled or moved, with nothing but
\* line breaks and tabs put in; so the count of "(" less that of ")" grows by
\* that of the stripped fragment.
AppendKeepsCharacters ==
    call.op = "append" =>
        LET f == strip_discord_code(call.arg)
        IN  /\ starts_with(code, call.old)
            /\ NoLayout(SubSeq(code, Len(call.old) + 1, Len(code))) = NoLayout(f)
            /\ Net(code) = Net(call.old) + Net(f)

\* ")a" was appended to "(()": a line break and a tab were put in.
AppendKeepsWitness ==
    /\ call.op = "append"
    /\ call.old = <<"(", "(", ")">>
    /\ call.arg = <<")", "a">>
    /\ code = <<"(", "(", ")", ")", "\n", "\t", "a">>

\* C18: a line of the fragment that does not start with ")" and is put after
\* text, of the buffer or of an earlier line of the fragment, is parted from
\* that text by a line break or a tab at least.
AppendSeparatesLines ==
    call.op = "append" =>
        LET ls == lines(strip_discord_code(call.arg))
            indents == indent_depth(call.old)
        IN  \A i \in 1..Len(ls) :
                LET before == append_lines(call.old, SubSeq(ls, 1, i - 1), indents)
                    after == append_line(before, ls[i], indents)
                IN  (ls[i] # <<>> /\ ls[i][1] # ")" /\ before # <<>>) =>
                        /\ Len(after) > Len(before) + Len(ls[i])
                        /\ after[Len(before) + 1] \in {"\n", "\t"}

----------------------------------------------------------------------------
(* Whitespace around the markup: C19, under SpecCodec. *)

AllWhitespace(s) == \A i \in 1..Len(s) : is_whitespace(s[i])

\* C19: strip_discord_code returns for a text what it returns for the text
\* without whitespace at its ends, whatever part of that whitespace is taken
\* off, a single backtick behind whitespace included, and what it returns
\* neither starts nor ends with whitespace.
StripIgnoresPadding ==
    call.op = "strip_discord_code" =>
        /\ \A i \in 0..Len(call.arg) : \A j \in i..Len(call.arg) :
              (/\ AllWhitespace(SubSeq(call.arg, 1, i))
               /\ AllWhitespace(SubSeq(call.arg, j + 1, Len(call.arg)))) =>
                  ret = strip_discord_code(SubSeq(call.arg, i + 1, j))
        /\ NoSurroundingSpace(ret)

====
